---- MODULE Spec2Model ----
(***************************************************************************)
(* The scraping-job orchestrator (worker.py: scrape_project) and the alert *)
(* engine (services/alerts.py) of web-monitoring, over one PostgreSQL      *)
(* database shared by concurrently executing Celery tasks.                 *)
(*                                                                         *)
(* Each Celery task runs its attempts one after the other; every attempt   *)
(* owns one database connection whose statements run in one transaction    *)
(* until db.commit().  A failed statement aborts that transaction: every   *)
(* later statement on the connection raises until the transaction ends,    *)
(* and what the transaction wrote is discarded.                            *)
(***************************************************************************)
EXTENDS Integers, Sequences, FiniteSets, TLC

\* ---- bounds of the model ------------------------------------------------
MaxTasks == 2
MaxUrl == 2
MaxResults == 2
MaxFaults == 1
RetryFaults == 4
MaxEvaluations == 2
MaxHistory == 14
MaxNew == 5
MaxCrashes == 1
MaxScored == 2

\* ---- constants of the program -------------------------------------------
MaxRetries == 3
RetryDelay == 300
ScheduleIntervalHours == 6
SpikeWindowDays == 7
NullUrl == 0

Tasks == 1..MaxTasks
Projects == {1, 2}
Urls == 1..MaxUrl
AlertIds == {1, 2}
Recipients == {1, 2}
Null == "NULL"

VARIABLES
    projects,    \* projects.status per id ("missing": no such row)
    env,         \* the worker's environment variables that are set
    tasks,       \* the Celery message of each task id
    run,         \* the local variables of the attempt a task is executing
    tx,          \* article rows a connection has written and not committed
    jobs,        \* the scraping_jobs table
    articles,    \* the articles table (committed rows)
    schedules,   \* the schedules table
    api_logs,    \* the api_logs table
    alerts,      \* the alerts table
    history,     \* articles rows scraped 1 to 7 days ago, per project
    evaluation,  \* the arguments of the latest AlertEngine.check_all_alerts
    faults,      \* failures the environment may still inject
    mail,        \* the messages _send_email handed to the SMTP server
    beat         \* the result of the latest scrape_all_active_projects

vars == <<projects, env, tasks, run, tx, jobs, articles, schedules, api_logs,
          alerts, history, evaluation, faults, mail, beat>>

\* ---- helpers --------------------------------------------------------------
Range(s) == {s[k] : k \in 1..Len(s)}

SeqsUpTo(S, n) == UNION {[1..k -> S] : k \in 0..n}

\* The lists of result URLs the search provider can answer with; an item of
\* the provider's answer may carry no url at all.
ResultSeqs == SeqsUpTo(Urls \cup {NullUrl}, MaxResults)

\* One execution of the task body: the task and the number of executions of
\* the task that ended before it, by a retry or by the loss of the worker.
Attempts == 0..(MaxRetries + 1 + MaxCrashes)
JobIds == Tasks \X Attempts
\* Mutant of Stamp: one job row per task id, reused by every attempt.
StampPerTask(t) == <<t, 0>>

Stamp(t) == <<t, tasks[t].retries + tasks[t].crashes>>

\* Timestamps are symbolic: NOW() of a statement is the attempt that runs it,
\* plus an interval in hours; <<>> is the SQL NULL.
NullTime == <<>>
At(stamp, plus) == <<stamp[1], stamp[2], plus>>

NoJob == [project_id |-> 0, status |-> "none", celery_task_id |-> 0,
          articles_found |-> 0, new_articles |-> 0, error_message |-> Null,
          completed_at |-> NullTime]
NoEvaluation == [job |-> <<0, 0>>, project_id |-> 0, new_articles |-> 0,
                 raised |-> FALSE, down |-> {}]
NoRun == [pc |-> "idle", articles |-> <<>>, blank |-> {}, analyzed |-> <<>>,
          failed |-> {}, i |-> 0, new_articles |-> 0, aborted |-> FALSE,
          victim |-> FALSE, fetched |-> <<>>, done |-> 0]

NoBeat == [ran |-> FALSE, projects_scheduled |-> 0, queued |-> {}]

NoTask == [state |-> "idle", project_id |-> 0, retries |-> 0, attempts |-> 0,
           countdown |-> 0, crashes |-> 0, lost |-> <<>>]

\* ---- the article store ----------------------------------------------------
\* Rows a statement on t's connection sees: committed rows and its own writes.
Visible(t) == articles \cup tx[t]

\* Mutant of Conflicts: uniqueness per project instead of global.
ConflictsPerProject(row, rows) ==
    \E r \in rows : r.url = row.url /\ r.project_id = row.project_id

\* The uniqueness constraint on articles.url, the arbiter of ON CONFLICT (url).
Conflicts(row, rows) == \E r \in rows : r.url = row.url

\* cursor.rowcount of INSERT ... ON CONFLICT (url) DO NOTHING.
Rowcount(row, rows) == IF Conflicts(row, rows) THEN 0 ELSE 1

\* Mutant of Blockers: the INSERT does not wait for uncommitted rows.
NoBlockers(t, url) == {}

\* Connections holding an uncommitted row with this url: an INSERT of the same
\* url waits until each of them commits or rolls back.
Blockers(t, url) == {o \in Tasks \ {t} : \E r \in tx[o] : r.url = url}

InLoop(t) == run[t].pc = "insert" /\ run[t].i <= Len(run[t].analyzed)

NextArticle(t) == run[t].analyzed[run[t].i]

\* t's INSERT is waiting for o.
WaitsFor(t, o) ==
    /\ InLoop(t)
    /\ ~run[t].aborted
    /\ NextArticle(t).url # NullUrl
    /\ o \in Blockers(t, NextArticle(t).url)

RECURSIVE WaitChain(_, _)
WaitChain(S, n) ==
    IF n = 0 THEN S
    ELSE WaitChain(S \cup {o \in Tasks : \E w \in S : WaitsFor(w, o)}, n - 1)

\* t is on a cycle of waiting connections: the deadlock detector may abort it.
Deadlocked(t) ==
    t \in WaitChain({o \in Tasks : WaitsFor(t, o)}, MaxTasks)

\* worker.py: the default annotation of an item when GEMINI_API_KEY is unset.
DefaultAnalysis(url) ==
    [url |-> url, sentiment |-> "neutral", sentiment_score |-> 0,
     relevance_score |-> 50]

ArticleRow(t, a, k) ==
    [url |-> a.url, project_id |-> tasks[t].project_id,
     sentiment_score |-> a.sentiment_score, job |-> Stamp(t)]

\* ---- retry policy and failure handler -------------------------------------
\* Mutant of Retry: the retry limit is compared off by one.
RetryOffByOne(task) ==
    IF task.retries <= MaxRetries
    THEN [task EXCEPT !.state = "retry", !.retries = @ + 1,
                      !.countdown = RetryDelay]
    ELSE [task EXCEPT !.state = "failed"]

\* self.retry(exc=exc, countdown=300) of a task registered with max_retries=3.
Retry(task) ==
    IF task.retries < MaxRetries
    THEN [task EXCEPT !.state = "retry", !.retries = @ + 1,
                      !.countdown = RetryDelay]
    ELSE [task EXCEPT !.state = "failed"]

\* The except branch of scrape_project.  usable: the connection's transaction
\* is not aborted, so the UPDATE of the job row and its commit succeed;
\* otherwise the UPDATE raises and the inner except swallows it.
Handler(t, exc, usable) ==
    /\ jobs' = IF jobs[Stamp(t)].status # "none" /\ usable
               THEN [jobs EXCEPT ![Stamp(t)].status = "failed",
                                 ![Stamp(t)].completed_at = At(Stamp(t), 0),
                                 ![Stamp(t)].error_message = exc]
               ELSE jobs
    /\ tasks' = [tasks EXCEPT ![t] = Retry(@)]
    /\ run' = [run EXCEPT ![t] = NoRun]
    /\ tx' = [tx EXCEPT ![t] = {}]

\* The task function returned its result: the message is acknowledged.
Return(t) ==
    /\ tasks' = [tasks EXCEPT ![t].state = "succeeded"]
    /\ run' = [run EXCEPT ![t] = NoRun]

\* ---- the alert engine -------------------------------------------------------
RECURSIVE SumScores(_)
SumScores(rows) ==
    IF rows = {} THEN 0
    ELSE LET r == CHOOSE x \in rows : TRUE
         IN  r.sentiment_score + SumScores(rows \ {r})

Abs(x) == IF x < 0 THEN -x ELSE x

\* Rows of the project written by the modelled runs; all of them were scraped
\* within the last 24 hours.
RecentRows(p) == {r \in articles : r.project_id = p}

\* COUNT(*) of the project's rows scraped in the last 7 days.
Count7(p) == history[p].n + Cardinality(RecentRows(p))

\* Mutant of SpikeCondition: the comparison is not strict.
SpikeConditionNonStrict(new, count, threshold) ==
    new * SpikeWindowDays * 100 >= count * threshold

\* new_articles > avg_daily * threshold with avg_daily = count / 7; thresholds
\* are held in hundredths, both sides are multiplied by 7 * 100.
SpikeCondition(new, count, threshold) ==
    new * SpikeWindowDays * 100 > count * threshold

\* The UPDATE of _trigger_alert.
TriggerAlert(a, at) ==
    [a EXCEPT !.trigger_count = @ + 1, !.last_triggered = At(at, 0)]

\* Mutant of CheckSpikeAlerts: the SELECT has no is_active condition.
CheckSpikeAlertsInactiveToo(p, new, at, al) ==
    [id \in DOMAIN al |->
        IF /\ al[id].project_id = p
           /\ al[id].type = "spike_detection"
           /\ SpikeCondition(new, Count7(p), al[id].threshold)
        THEN TriggerAlert(al[id], at)
        ELSE al[id]]

CheckSpikeAlerts(p, new, at, al) ==
    [id \in DOMAIN al |->
        IF /\ al[id].project_id = p
           /\ al[id].type = "spike_detection"
           /\ al[id].is_active
           /\ SpikeCondition(new, Count7(p), al[id].threshold)
        THEN TriggerAlert(al[id], at)
        ELSE al[id]]

\* abs(recent - historical) > threshold for recent = rs / rn and historical =
\* hs / hn, or 0 when the historical average is NULL or 0; scores and
\* thresholds are held in hundredths.
SentimentCondition(rs, rn, hs, hn, threshold) ==
    IF hn = 0 \/ hs = 0
    THEN Abs(rs) > threshold * rn
    ELSE Abs(rs * hn - hs * rn) > threshold * rn * hn

\* Mutant of CheckSentimentAlerts: with no recent score the recent average is
\* taken as 0 and the alerts are compared all the same.
CheckSentimentAlertsNoSkip(p, at, al) ==
    LET rs == SumScores(RecentRows(p))
        rn == Cardinality(RecentRows(p))
    IN  [id \in DOMAIN al |->
            IF /\ al[id].project_id = p
               /\ al[id].type = "sentiment_shift"
               /\ al[id].is_active
               /\ SentimentCondition(rs, IF rn = 0 THEN 1 ELSE rn,
                                     history[p].score_sum, history[p].n,
                                     al[id].threshold)
            THEN TriggerAlert(al[id], at)
            ELSE al[id]]

CheckSentimentAlerts(p, at, al) ==
    LET rs == SumScores(RecentRows(p))
        rn == Cardinality(RecentRows(p))
    IN  IF rn = 0 \/ rs = 0
        THEN al
        ELSE [id \in DOMAIN al |->
                IF /\ al[id].project_id = p
                   /\ al[id].type = "sentiment_shift"
                   /\ al[id].is_active
                   /\ SentimentCondition(rs, rn, history[p].score_sum,
                                         history[p].n, al[id].threshold)
                THEN TriggerAlert(al[id], at)
                ELSE al[id]]

CheckAllAlerts(p, new, at, al) ==
    CheckSentimentAlerts(p, at, CheckSpikeAlerts(p, new, at, al))

\* Mutant of SendEmail: the message is handed over whether or not SMTP is
\* configured.
SendEmailUnconfigured(id, to, at, down) ==
    {[alert |-> id, to |-> to, at |-> at, sent |-> to \notin down]}

\* _send_email: nothing without SMTP_USER and SMTP_PASS; otherwise the message
\* is handed to the server, and an SMTP error is caught and printed.
SendEmail(id, to, at, down) ==
    IF ~env.smtp THEN {}
    ELSE {[alert |-> id, to |-> to, at |-> at, sent |-> to \notin down]}

\* Mutant of Deliveries: the loop ends at the first recipient that cannot be
\* reached.
DeliveriesStopAtFailure(id, recipients, at, down) ==
    UNION {SendEmail(id, recipients[k], at, down) :
              k \in {i \in 1..Len(recipients) :
                        \A j \in 1..(i - 1) : recipients[j] \notin down}}

\* The loop of _trigger_alert over alert['email_recipients'].
Deliveries(id, recipients, at, down) ==
    UNION {SendEmail(id, recipients[k], at, down) : k \in 1..Len(recipients)}

\* The alerts the call triggered, given the table before and after it.
Triggered(al, after) ==
    {id \in DOMAIN al : after[id].trigger_count > al[id].trigger_count}

\* One call of check_all_alerts that returns, while the recipients in down
\* cannot be reached.
EvaluateWith(p, new, at, down) ==
    LET after == CheckAllAlerts(p, new, at, alerts)
    IN  /\ alerts' = after
        /\ mail' = mail \cup UNION {Deliveries(id, alerts[id].email_recipients,
                                                at, down) :
                                     id \in Triggered(alerts, after)}
        /\ evaluation' = [job |-> at, project_id |-> p, new_articles |-> new,
                          raised |-> FALSE, down |-> down]

\* One call of check_all_alerts that returns.
Evaluate(p, new, at) == EvaluateWith(p, new, at, {})

\* ---- initial state ----------------------------------------------------------
\* The projects table is written by the configuration API only: its content is
\* an input.  Project 1 is active; project 2 is active, paused or deleted.
ProjectTables ==
    {[p \in Projects |-> IF p = 1 THEN "active" ELSE s] :
        s \in {"active", "paused", "missing"}}

\* create_project inserts the schedule row with next_run = NOW() + 6 hours; a
\* deleted project's schedule row is deleted with it.
InitialSchedule(status) ==
    IF status = "missing"
    THEN [exists |-> FALSE, last_run |-> NullTime, next_run |-> NullTime]
    ELSE [exists |-> TRUE, last_run |-> NullTime,
          next_run |-> At(<<0, 0>>, ScheduleIntervalHours)]

\* Two alerts of project 1, as create_alert inserts them: a spike alert with
\* the given threshold and two recipients, and a sentiment alert with the
\* default 0.30 and one recipient.
InitialAlerts(spike) ==
    [id \in AlertIds |->
        [project_id |-> 1,
         type |-> IF id = 1 THEN "spike_detection" ELSE "sentiment_shift",
         threshold |-> IF id = 1 THEN spike ELSE 30,
         email_recipients |-> IF id = 1 THEN <<1, 2>> ELSE <<2>>,
         is_active |-> TRUE, trigger_count |-> 0, last_triggered |-> NullTime]]

Quiet ==
    /\ projects \in ProjectTables
    /\ env \in {[dataforseo |-> b, gemini |-> FALSE, smtp |-> FALSE] :
                   b \in BOOLEAN}
    /\ tasks = [t \in Tasks |-> NoTask]
    /\ run = [t \in Tasks |-> NoRun]
    /\ tx = [t \in Tasks |-> {}]
    /\ jobs = [j \in JobIds |-> NoJob]
    /\ articles = {}
    /\ schedules = [p \in Projects |-> InitialSchedule(projects[p])]
    /\ api_logs = {}
    /\ evaluation = NoEvaluation
    /\ mail = {}
    /\ beat = NoBeat

Init ==
    /\ Quiet
    /\ alerts = InitialAlerts(350)
    /\ history = [p \in Projects |-> [n |-> 0, score_sum |-> 0]]
    /\ faults = MaxFaults

\* ---- the task queue ---------------------------------------------------------
\* Mutant of Delay: a task is not enqueued while a job of the project runs.
DelayUnlessRunning(t, p) ==
    /\ tasks[t].state = "idle"
    /\ \A o \in Tasks : o < t => tasks[o].state # "idle"
    /\ \A j \in JobIds : ~(jobs[j].project_id = p /\ jobs[j].status = "running")
    /\ tasks' = [tasks EXCEPT ![t] = [NoTask EXCEPT !.state = "queued",
                                                   !.project_id = p]]
    /\ UNCHANGED <<projects, env, mail, beat, run, tx, jobs, articles, schedules, api_logs,
                   alerts, history, evaluation, faults>>

\* scrape_project.delay(project_id): a new task message, delivered at once.
\* Task ids are used in order.
Delay(t, p) ==
    /\ tasks[t].state = "idle"
    /\ \A o \in Tasks : o < t => tasks[o].state # "idle"
    /\ tasks' = [tasks EXCEPT ![t] = [NoTask EXCEPT !.state = "queued",
                                                   !.project_id = p]]
    /\ UNCHANGED <<projects, env, mail, beat, run, tx, jobs, articles, schedules, api_logs,
                   alerts, history, evaluation, faults>>

\* ---- scrape_project ---------------------------------------------------------
NewJob(t) ==
    [project_id |-> tasks[t].project_id, status |-> "running",
     celery_task_id |-> t, articles_found |-> 0, new_articles |-> 0,
     error_message |-> Null, completed_at |-> NullTime]

\* A worker takes the message; the body connects and inserts the job row.
\* scraping_jobs.project_id references projects.id: for a project that does
\* not exist the INSERT raises, job_id stays None and the handler has no row
\* to update.
StartRun(t) ==
    /\ tasks[t].state \in {"queued", "retry"}
    /\ IF projects[tasks[t].project_id] = "missing"
       THEN /\ tasks' = [tasks EXCEPT ![t] = Retry([@ EXCEPT !.attempts = @ + 1])]
            /\ UNCHANGED <<jobs, run>>
       ELSE /\ jobs' = [jobs EXCEPT ![Stamp(t)] = NewJob(t)]
            /\ tasks' = [tasks EXCEPT ![t].state = "running",
                                      ![t].attempts = @ + 1]
            /\ run' = [run EXCEPT ![t] = [NoRun EXCEPT !.pc = "fetch"]]
    /\ UNCHANGED <<projects, env, mail, beat, tx, articles, schedules, api_logs, alerts,
                   history, evaluation, faults>>

\* The keywords and competitors a project may have, and the search terms
\* built from them: the brand first.
KeywordLists == SeqsUpTo({"keyword", "competitor"}, 2)

AllTerms(terms) == <<"brand">> \o terms

\* Mutant of Configured: the status of the project is not looked at.
ConfiguredAnyStatus(t) ==
    /\ projects[tasks[t].project_id] # "missing"
    /\ env.dataforseo

Configured(t) ==
    /\ projects[tasks[t].project_id] = "active"
    /\ \A terms \in KeywordLists : AllTerms(terms) # <<>>
    /\ env.dataforseo

\* ValueError: project not found or inactive, or provider credentials unset.
\* (all_terms always holds the brand, so "no search terms" cannot be raised.)
ConfigError(t) ==
    /\ run[t].pc = "fetch"
    /\ ~Configured(t)
    /\ Handler(t, IF projects[tasks[t].project_id] # "active"
                  THEN "project not found or inactive"
                  ELSE "credentials not configured", TRUE)
    /\ UNCHANGED <<projects, env, mail, beat, articles, schedules, api_logs, alerts,
                   history, evaluation, faults>>

\* Mutant of ProviderError: the handler cannot write the job row.
ProviderErrorUnrecorded(t) ==
    /\ run[t].pc = "fetch"
    /\ Configured(t)
    /\ faults > 0
    /\ faults' = faults - 1
    /\ Handler(t, "DataForSEO error", FALSE)
    /\ UNCHANGED <<projects, env, mail, beat, articles, schedules, api_logs, alerts,
                   history, evaluation>>

\* search_news answered success = False: scrape_project raises "DataForSEO
\* error: " followed by the provider's error text, which becomes the job's
\* error_message.
ProviderError(t) ==
    /\ run[t].pc = "fetch"
    /\ Configured(t)
    /\ faults > 0
    /\ faults' = faults - 1
    /\ Handler(t, "DataForSEO error", TRUE)
    /\ UNCHANGED <<projects, env, mail, beat, articles, schedules, api_logs, alerts,
                   history, evaluation>>

\* search_news answered success with the items res.
Search(t, res) ==
    /\ run[t].pc = "fetch"
    /\ Configured(t)
    /\ run' = [run EXCEPT ![t].pc = "searched", ![t].articles = res]
    /\ UNCHANGED <<projects, env, mail, beat, tasks, tx, jobs, articles, schedules,
                   api_logs, alerts, history, evaluation, faults>>

\* Mutant of NoArticles: an empty answer is raised as an error.
NoArticlesAsFailure(t) ==
    /\ run[t].pc = "searched"
    /\ run[t].articles = <<>>
    /\ Handler(t, "no articles", TRUE)
    /\ UNCHANGED <<projects, env, mail, beat, articles, schedules, api_logs, alerts,
                   history, evaluation, faults>>

\* No article was found: the job is completed and the function returns.
NoArticles(t) ==
    /\ run[t].pc = "searched"
    /\ run[t].articles = <<>>
    /\ jobs' = [jobs EXCEPT ![Stamp(t)].status = "completed",
                            ![Stamp(t)].completed_at = At(Stamp(t), 0),
                            ![Stamp(t)].articles_found = 0,
                            ![Stamp(t)].new_articles = 0]
    /\ Return(t)
    /\ UNCHANGED <<projects, env, mail, beat, tx, articles, schedules, api_logs, alerts,
                   history, evaluation, faults>>

\* Without GEMINI_API_KEY every item gets the default annotation.
Analyze(t) ==
    /\ run[t].pc = "searched"
    /\ run[t].articles # <<>>
    /\ ~env.gemini
    /\ run' = [run EXCEPT ![t].pc = "insert",
                          ![t].analyzed = [k \in 1..Len(run[t].articles) |->
                                              DefaultAnalysis(run[t].articles[k])],
                          ![t].i = 1]
    /\ UNCHANGED <<projects, env, mail, beat, tasks, tx, jobs, articles, schedules,
                   api_logs, alerts, history, evaluation, faults>>

\* Mutant of InsertArticle: ON CONFLICT (url) DO UPDATE, the stored row takes
\* the values of the new result.
InsertArticleUpsert(t) ==
    /\ InLoop(t)
    /\ LET row == ArticleRow(t, NextArticle(t), run[t].i)
       IN  IF Conflicts(row, articles)
           THEN /\ articles' = {r \in articles : r.url # row.url} \cup {row}
                /\ run' = [run EXCEPT ![t].i = @ + 1]
                /\ UNCHANGED tx
           ELSE /\ tx' = [tx EXCEPT ![t] = @ \cup {row}]
                /\ run' = [run EXCEPT ![t].i = @ + 1,
                                      ![t].new_articles = @ + 1]
                /\ UNCHANGED articles
    /\ UNCHANGED <<projects, env, mail, beat, tasks, jobs, schedules, api_logs,
                   alerts, history, evaluation, faults>>

\* One pass of the save loop: INSERT ... ON CONFLICT (url) DO NOTHING inside
\* try/except.
InsertArticle(t) ==
    /\ InLoop(t)
    /\ LET a == NextArticle(t)
           row == ArticleRow(t, a, run[t].i)
       IN  IF run[t].aborted
           THEN \* the transaction is aborted: the statement raises
                /\ run' = [run EXCEPT ![t].i = @ + 1]
                /\ UNCHANGED tx
           ELSE IF a.url = NullUrl
           THEN \* url is NOT NULL: the statement raises, the transaction aborts
                /\ run' = [run EXCEPT ![t].i = @ + 1, ![t].aborted = TRUE]
                /\ tx' = [tx EXCEPT ![t] = {}]
           ELSE /\ Blockers(t, a.url) = {}
                /\ tx' = [tx EXCEPT ![t] =
                            IF Rowcount(row, Visible(t)) > 0
                            THEN @ \cup {row} ELSE @]
                /\ run' = [run EXCEPT ![t].i = @ + 1,
                                      ![t].new_articles =
                                          IF Rowcount(row, Visible(t)) > 0
                                          THEN @ + 1 ELSE @]
    /\ UNCHANGED <<projects, env, mail, beat, tasks, jobs, articles, schedules, api_logs,
                   alerts, history, evaluation, faults>>

\* The INSERT waits on a cycle of connections: the database aborts it with a
\* deadlock error, which the loop's except catches.
InsertDeadlock(t) ==
    /\ Deadlocked(t)
    /\ run' = [run EXCEPT ![t].i = @ + 1, ![t].aborted = TRUE,
                          ![t].victim = TRUE]
    /\ tx' = [tx EXCEPT ![t] = {}]
    /\ UNCHANGED <<projects, env, mail, beat, tasks, jobs, articles, schedules, api_logs,
                   alerts, history, evaluation, faults>>

\* db.commit() after the loop; on an aborted transaction it is a rollback.
CommitArticles(t) ==
    /\ run[t].pc = "insert"
    /\ run[t].i > Len(run[t].analyzed)
    /\ articles' = articles \cup tx[t]
    /\ tx' = [tx EXCEPT ![t] = {}]
    /\ run' = [run EXCEPT ![t].pc = "log", ![t].aborted = FALSE]
    /\ UNCHANGED <<projects, env, mail, beat, tasks, jobs, schedules, api_logs, alerts,
                   history, evaluation, faults>>

\* UPDATE schedules SET last_run = NOW(), next_run = NOW() + INTERVAL '6 hours'.
UpdateSchedule(row, at) ==
    IF row.exists
    THEN [row EXCEPT !.last_run = At(at, 0),
                     !.next_run = At(at, ScheduleIntervalHours)]
    ELSE row

\* Mutant of LogAndComplete: the alerts are checked whatever new_articles is.
LogAndCompleteThenAlerts(t) ==
    /\ run[t].pc = "log"
    /\ api_logs' = api_logs \cup {[project_id |-> tasks[t].project_id,
                                   job |-> Stamp(t)]}
    /\ jobs' = [jobs EXCEPT ![Stamp(t)].status = "completed",
                            ![Stamp(t)].completed_at = At(Stamp(t), 0),
                            ![Stamp(t)].articles_found = Len(run[t].articles),
                            ![Stamp(t)].new_articles = run[t].new_articles]
    /\ schedules' = [schedules EXCEPT ![tasks[t].project_id] =
                        UpdateSchedule(@, Stamp(t))]
    /\ run' = [run EXCEPT ![t].pc = "alerts"]
    /\ UNCHANGED <<projects, env, mail, beat, tasks, tx, articles, alerts, history,
                   evaluation, faults>>

\* The api_logs row, the job's completion, the schedule update and their
\* commit; with no new article the function returns right after.
LogAndComplete(t) ==
    /\ run[t].pc = "log"
    /\ api_logs' = api_logs \cup {[project_id |-> tasks[t].project_id,
                                   job |-> Stamp(t)]}
    /\ jobs' = [jobs EXCEPT ![Stamp(t)].status = "completed",
                            ![Stamp(t)].completed_at = At(Stamp(t), 0),
                            ![Stamp(t)].articles_found = Len(run[t].articles),
                            ![Stamp(t)].new_articles = run[t].new_articles]
    /\ schedules' = [schedules EXCEPT ![tasks[t].project_id] =
                        UpdateSchedule(@, Stamp(t))]
    /\ IF run[t].new_articles > 0
       THEN /\ run' = [run EXCEPT ![t].pc = "alerts"]
            /\ UNCHANGED tasks
       ELSE Return(t)
    /\ UNCHANGED <<projects, env, mail, beat, tx, articles, alerts, history, evaluation, faults>>

\* A statement between the articles' commit and the final commit raises: the
\* transaction is aborted when the handler runs.
LogFails(t) ==
    /\ run[t].pc = "log"
    /\ faults > 0
    /\ faults' = faults - 1
    /\ Handler(t, "database error", FALSE)
    /\ UNCHANGED <<projects, env, mail, beat, articles, schedules, api_logs, alerts,
                   history, evaluation>>

\* AlertEngine(db).check_all_alerts(project_id, new_articles), then the return.
CheckAlerts(t) ==
    /\ run[t].pc = "alerts"
    /\ Evaluate(tasks[t].project_id, run[t].new_articles, Stamp(t))
    /\ Return(t)
    /\ UNCHANGED <<projects, env, beat, tx, jobs, articles, schedules, api_logs,
                   history, faults>>

\* Mutant of AlertsRaise: the exception of check_all_alerts is not caught and
\* reaches the handler of scrape_project.
AlertsRaiseUncaught(t) ==
    /\ run[t].pc = "alerts"
    /\ faults > 0
    /\ faults' = faults - 1
    /\ evaluation' = [job |-> Stamp(t), project_id |-> tasks[t].project_id,
                      new_articles |-> run[t].new_articles, raised |-> TRUE,
                      down |-> {}]
    /\ Handler(t, "alert error", TRUE)
    /\ UNCHANGED <<projects, env, mail, beat, articles, schedules, api_logs, alerts,
                   history>>

\* check_all_alerts raises before it triggers anything: the except around it
\* logs a warning and the function returns its result.
AlertsRaise(t) ==
    /\ run[t].pc = "alerts"
    /\ faults > 0
    /\ faults' = faults - 1
    /\ evaluation' = [job |-> Stamp(t), project_id |-> tasks[t].project_id,
                      new_articles |-> run[t].new_articles, raised |-> TRUE,
                      down |-> {}]
    /\ Return(t)
    /\ UNCHANGED <<projects, env, mail, beat, tx, jobs, articles, schedules, api_logs,
                   alerts, history>>

Next ==
    \/ \E t \in Tasks, p \in Projects : Delay(t, p)
    \/ \E t \in Tasks : StartRun(t)
    \/ \E t \in Tasks : ConfigError(t)
    \/ \E t \in Tasks : ProviderError(t)
    \/ \E t \in Tasks, res \in ResultSeqs : Search(t, res)
    \/ \E t \in Tasks : NoArticles(t)
    \/ \E t \in Tasks : Analyze(t)
    \/ \E t \in Tasks : InsertArticle(t)
    \/ \E t \in Tasks : InsertDeadlock(t)
    \/ \E t \in Tasks : CommitArticles(t)
    \/ \E t \in Tasks : LogAndComplete(t)
    \/ \E t \in Tasks : LogFails(t)
    \/ \E t \in Tasks : CheckAlerts(t)
    \/ \E t \in Tasks : AlertsRaise(t)

Spec == Init /\ [][Next]_vars

\* ---- one task alone, with enough failures to exhaust its retries ------------
InitRetry ==
    /\ Quiet
    /\ alerts = InitialAlerts(350)
    /\ history = [p \in Projects |-> [n |-> 0, score_sum |-> 0]]
    /\ faults = RetryFaults

NextRetry ==
    \/ \E p \in Projects : Delay(1, p)
    \/ StartRun(1)
    \/ ConfigError(1)
    \/ ProviderError(1)
    \/ \E res \in ResultSeqs : Search(1, res)
    \/ NoArticles(1)
    \/ Analyze(1)
    \/ InsertArticle(1)
    \/ CommitArticles(1)
    \/ LogAndComplete(1)
    \/ LogFails(1)
    \/ CheckAlerts(1)
    \/ AlertsRaise(1)

SpecRetry == InitRetry /\ [][NextRetry]_vars

\* ---- the spike detector on its inputs ---------------------------------------
\* Spike thresholds in hundredths: 1.5, 3.5 and 7.0.
SpikeThresholds == {150, 350, 700}

InitSpike ==
    /\ Quiet
    /\ \E T \in SpikeThresholds, b \in BOOLEAN :
           alerts = [InitialAlerts(T) EXCEPT ![1].is_active = b]
    /\ \E n \in 0..MaxHistory :
           history = [p \in Projects |-> [n |-> n, score_sum |-> 0]]
    /\ faults = 0

\* check_all_alerts(1, new) on the stored history, from any caller.
EvaluateAlerts(new) ==
    /\ \A id \in AlertIds : alerts[id].trigger_count < MaxEvaluations
    /\ Evaluate(1, new, <<0, 0>>)
    /\ UNCHANGED <<projects, env, beat, tasks, run, tx, jobs, articles, schedules,
                   api_logs, history, faults>>

NextSpike == \E new \in 0..MaxNew : EvaluateAlerts(new)

SpecSpike == InitSpike /\ [][NextSpike]_vars

\* ---- the alert engine on stored articles, with mail and toggles -------------
\* Sentiment scores and sentiment thresholds in hundredths: the scores -0.5, 0
\* and 0.5, the thresholds 0.25 and 0.5.
Scores == {-50, 0, 50}
SentimentThresholds == {25, 50}

\* The articles of project 1 scraped in the last 24 hours, each with a score.
RecentSets ==
    {rows \in SUBSET [url : Urls, project_id : {1}, sentiment_score : Scores,
                      job : {<<0, 0>>}] :
        \A a, b \in rows : a.url = b.url => a = b}

\* The scored articles of project 1 of the 30 days before: their number and
\* the sum of their scores.
Histories ==
    {h \in [n : 0..MaxScored,
            score_sum : {50 * k : k \in -MaxScored..MaxScored}] :
        Abs(h.score_sum) <= 50 * h.n}

InitEngine ==
    /\ projects = [p \in Projects |-> "active"]
    /\ env \in {[dataforseo |-> TRUE, gemini |-> TRUE, smtp |-> b] : b \in BOOLEAN}
    /\ tasks = [t \in Tasks |-> NoTask]
    /\ run = [t \in Tasks |-> NoRun]
    /\ tx = [t \in Tasks |-> {}]
    /\ jobs = [j \in JobIds |-> NoJob]
    /\ articles \in RecentSets
    /\ schedules = [p \in Projects |-> InitialSchedule(projects[p])]
    /\ api_logs = {}
    /\ \E T \in SentimentThresholds :
           alerts = [InitialAlerts(150) EXCEPT ![2].threshold = T]
    /\ \E h \in Histories :
           history = [p \in Projects |->
                         IF p = 1 THEN h ELSE [n |-> 0, score_sum |-> 0]]
    /\ evaluation = NoEvaluation
    /\ faults = 0
    /\ mail = {}
    /\ beat = NoBeat

\* check_all_alerts(1, new) on the stored articles, from any caller, while the
\* recipients in down cannot be reached; the calls are numbered.
EvaluateEngine(new, down) ==
    /\ evaluation.job[2] < MaxEvaluations
    /\ EvaluateWith(1, new, <<0, evaluation.job[2] + 1>>, down)
    /\ UNCHANGED <<projects, env, beat, tasks, run, tx, jobs, articles,
                   schedules, api_logs, history, faults>>

\* Mutant of ToggleAlert: switching an alert clears its trigger count.
ToggleAlertReset(id) ==
    /\ alerts' = [alerts EXCEPT ![id].is_active = ~@, ![id].trigger_count = 0]
    /\ UNCHANGED <<projects, env, mail, beat, tasks, run, tx, jobs, articles,
                   schedules, api_logs, history, evaluation, faults>>

\* api.py: toggle_alert, UPDATE alerts SET is_active = NOT is_active.
ToggleAlert(id) ==
    /\ alerts' = [alerts EXCEPT ![id].is_active = ~@]
    /\ UNCHANGED <<projects, env, mail, beat, tasks, run, tx, jobs, articles,
                   schedules, api_logs, history, evaluation, faults>>

NextEngine ==
    \/ \E new \in {0, MaxNew}, down \in SUBSET Recipients :
           EvaluateEngine(new, down)
    \/ \E id \in AlertIds : ToggleAlert(id)

SpecEngine == InitEngine /\ [][NextEngine]_vars

\* ---- job runs while alerts are switched off and on ---------------------------
\* Two tasks whose only failures are configuration errors, and toggle_alert
\* called at any time.
InitToggle ==
    /\ Quiet
    /\ alerts = InitialAlerts(350)
    /\ history = [p \in Projects |-> [n |-> 0, score_sum |-> 0]]
    /\ faults = 0

NextToggle ==
    \/ \E t \in Tasks, p \in Projects : Delay(t, p)
    \/ \E t \in Tasks : StartRun(t)
    \/ \E t \in Tasks : ConfigError(t)
    \/ \E t \in Tasks, res \in ResultSeqs : Search(t, res)
    \/ \E t \in Tasks : NoArticles(t)
    \/ \E t \in Tasks : Analyze(t)
    \/ \E t \in Tasks : InsertArticle(t)
    \/ \E t \in Tasks : InsertDeadlock(t)
    \/ \E t \in Tasks : CommitArticles(t)
    \/ \E t \in Tasks : LogAndComplete(t)
    \/ \E t \in Tasks : CheckAlerts(t)
    \/ \E id \in AlertIds : ToggleAlert(id)

SpecToggle == InitToggle /\ [][NextToggle]_vars

\* ---- one task analysed by Gemini ----------------------------------------------
\* search_news answered success with the items res; the items at the positions
\* in blank carry no title or no snippet (item.get gives None).
SearchItems(t, res, blank) ==
    /\ run[t].pc = "fetch"
    /\ Configured(t)
    /\ run' = [run EXCEPT ![t].pc = "searched", ![t].articles = res,
                          ![t].blank = blank]
    /\ UNCHANGED <<projects, env, mail, beat, tasks, tx, jobs, articles,
                   schedules, api_logs, alerts, history, evaluation, faults>>

\* What the model call does for one item: it raises or its answer cannot be
\* parsed, or it gives a sentiment, a score and a relevance.
Outcomes ==
    {[ok |-> FALSE, sentiment |-> "neutral", score |-> 0, relevance |-> 50]}
    \cup {[ok |-> TRUE, sentiment |-> IF sc > 0 THEN "positive" ELSE "negative",
           score |-> sc, relevance |-> 80] : sc \in Scores \ {0}}

\* analyze_single_article past the prompt: the parsed answer, or the default
\* of the except branch.
AnalyzeSingleArticle(url, o) ==
    IF o.ok
    THEN [url |-> url, sentiment |-> o.sentiment, sentiment_score |-> o.score,
          relevance_score |-> o.relevance]
    ELSE DefaultAnalysis(url)

\* batch_analyze_articles with GEMINI_API_KEY set.  The prompt is built
\* outside the try of analyze_single_article: slicing the title or the snippet
\* of a blank item raises TypeError, which leaves batch_analyze_articles and
\* reaches the handler of scrape_project.
AnalyzeGemini(t, out) ==
    /\ run[t].pc = "searched"
    /\ run[t].articles # <<>>
    /\ env.gemini
    /\ DOMAIN out = 1..Len(run[t].articles)
    /\ IF run[t].blank # {}
       THEN /\ Handler(t, "TypeError", TRUE)
       ELSE /\ run' = [run EXCEPT
                          ![t].pc = "insert",
                          ![t].analyzed =
                              [k \in 1..Len(run[t].articles) |->
                                  AnalyzeSingleArticle(run[t].articles[k], out[k])],
                          ![t].failed = {k \in DOMAIN out : ~out[k].ok},
                          ![t].i = 1]
            /\ UNCHANGED <<tasks, tx, jobs>>
    /\ UNCHANGED <<projects, env, mail, beat, articles, schedules, api_logs,
                   alerts, history, evaluation, faults>>

InitAnalysis ==
    /\ projects \in ProjectTables
    /\ env = [dataforseo |-> TRUE, gemini |-> TRUE, smtp |-> FALSE]
    /\ tasks = [t \in Tasks |-> NoTask]
    /\ run = [t \in Tasks |-> NoRun]
    /\ tx = [t \in Tasks |-> {}]
    /\ jobs = [j \in JobIds |-> NoJob]
    /\ articles = {}
    /\ schedules = [p \in Projects |-> InitialSchedule(projects[p])]
    /\ api_logs = {}
    /\ alerts = InitialAlerts(350)
    /\ history = [p \in Projects |-> [n |-> 0, score_sum |-> 0]]
    /\ evaluation = NoEvaluation
    /\ faults = 0
    /\ mail = {}
    /\ beat = NoBeat

NextAnalysis ==
    \/ \E p \in Projects : Delay(1, p)
    \/ StartRun(1)
    \/ ConfigError(1)
    \/ \E res \in ResultSeqs :
          \E blank \in SUBSET (1..Len(res)) : SearchItems(1, res, blank)
    \/ NoArticles(1)
    \/ \E out \in SeqsUpTo(Outcomes, MaxResults) : AnalyzeGemini(1, out)
    \/ InsertArticle(1)
    \/ CommitArticles(1)
    \/ LogAndComplete(1)
    \/ CheckAlerts(1)

SpecAnalysis == InitAnalysis /\ [][NextAnalysis]_vars

\* ---- one task whose worker may be lost ----------------------------------------
\* Mutant of Crash: the message was acknowledged when the worker took it, and
\* is lost with the worker.
CrashAcknowledged(t) ==
    /\ tasks[t].state = "running"
    /\ tasks[t].crashes < MaxCrashes
    /\ tasks' = [tasks EXCEPT ![t].state = "failed",
                              ![t].crashes = @ + 1,
                              ![t].lost = Append(@, run[t].articles)]
    /\ run' = [run EXCEPT ![t] = NoRun]
    /\ tx' = [tx EXCEPT ![t] = {}]
    /\ UNCHANGED <<projects, env, mail, beat, jobs, articles, schedules,
                   api_logs, alerts, history, evaluation, faults>>

\* The worker executing t is lost in the middle of the run.  Its connection
\* is closed by the server, which rolls back the open transaction; with
\* task_acks_late the message was not acknowledged and is delivered again,
\* with the same id and the same number of retries.  lost keeps the
\* provider's answers to the executions that were lost.
Crash(t) ==
    /\ tasks[t].state = "running"
    /\ tasks[t].crashes < MaxCrashes
    /\ tasks' = [tasks EXCEPT ![t].state = "queued",
                              ![t].crashes = @ + 1,
                              ![t].lost = Append(@, run[t].articles)]
    /\ run' = [run EXCEPT ![t] = NoRun]
    /\ tx' = [tx EXCEPT ![t] = {}]
    /\ UNCHANGED <<projects, env, mail, beat, jobs, articles, schedules,
                   api_logs, alerts, history, evaluation, faults>>

NextCrash ==
    \/ \E p \in Projects : Delay(1, p)
    \/ StartRun(1)
    \/ ConfigError(1)
    \/ \E res \in ResultSeqs : Search(1, res)
    \/ NoArticles(1)
    \/ Analyze(1)
    \/ InsertArticle(1)
    \/ CommitArticles(1)
    \/ LogAndComplete(1)
    \/ CheckAlerts(1)
    \/ Crash(1)

SpecCrash == InitToggle /\ [][NextCrash]_vars

\* ---- the periodic fan-out ------------------------------------------------------
\* The number of elements of S below x.
Rank(x, S) == Cardinality({y \in S : y < x})

\* Mutant of ActiveProjects: every project row is selected.
ExistingProjects == {p \in Projects : projects[p] # "missing"}

\* SELECT id, name FROM projects WHERE status = 'active'.
ActiveProjects == {p \in Projects : projects[p] = "active"}

IdleTasks == {t \in Tasks : tasks[t].state = "idle"}

\* scrape_all_active_projects: one scrape_project.delay per selected project,
\* each a new task id, and the number of selected projects as the result.
ScrapeAllActiveProjects ==
    LET n == Cardinality(ActiveProjects)
        chosen == {t \in IdleTasks : Rank(t, IdleTasks) < n}
    IN  /\ Cardinality(IdleTasks) >= n
        /\ tasks' = [t \in Tasks |->
                        IF t \in chosen
                        THEN [NoTask EXCEPT
                                 !.state = "queued",
                                 !.project_id =
                                     CHOOSE p \in ActiveProjects :
                                        Rank(p, ActiveProjects) = Rank(t, chosen)]
                        ELSE tasks[t]]
        /\ beat' = [ran |-> TRUE, projects_scheduled |-> n, queued |-> chosen]
        /\ UNCHANGED <<projects, env, mail, run, tx, jobs, articles, schedules,
                       api_logs, alerts, history, evaluation, faults>>

\* Any projects table; the provider's credentials set or not.
InitBeat ==
    /\ projects \in [Projects -> {"active", "paused", "missing"}]
    /\ env \in {[dataforseo |-> b, gemini |-> FALSE, smtp |-> FALSE] :
                   b \in BOOLEAN}
    /\ tasks = [t \in Tasks |-> NoTask]
    /\ run = [t \in Tasks |-> NoRun]
    /\ tx = [t \in Tasks |-> {}]
    /\ jobs = [j \in JobIds |-> NoJob]
    /\ articles = {}
    /\ schedules = [p \in Projects |-> InitialSchedule(projects[p])]
    /\ api_logs = {}
    /\ alerts = InitialAlerts(350)
    /\ history = [p \in Projects |-> [n |-> 0, score_sum |-> 0]]
    /\ evaluation = NoEvaluation
    /\ faults = 0
    /\ mail = {}
    /\ beat = NoBeat

NextBeat ==
    \/ ScrapeAllActiveProjects
    \/ \E t \in Tasks, p \in Projects : Delay(t, p)
    \/ \E t \in Tasks : StartRun(t)
    \/ \E t \in Tasks : ConfigError(t)
    \/ \E t \in Tasks, res \in ResultSeqs : Search(t, res)
    \/ \E t \in Tasks : NoArticles(t)
    \/ \E t \in Tasks : Analyze(t)
    \/ \E t \in Tasks : InsertArticle(t)
    \/ \E t \in Tasks : InsertDeadlock(t)
    \/ \E t \in Tasks : CommitArticles(t)
    \/ \E t \in Tasks : LogAndComplete(t)
    \/ \E t \in Tasks : CheckAlerts(t)

SpecBeat == InitBeat /\ [][NextBeat]_vars

\* ---- two tasks that are answered one item each, analysed by Gemini -----------
\* Every answer of the provider is one item with a url; the annotation of the
\* item differs from call to call, and one statement may fail after the
\* articles' commit, so that the task is retried.
InitRescore ==
    /\ projects = [p \in Projects |-> "active"]
    /\ env = [dataforseo |-> TRUE, gemini |-> TRUE, smtp |-> FALSE]
    /\ tasks = [t \in Tasks |-> NoTask]
    /\ run = [t \in Tasks |-> NoRun]
    /\ tx = [t \in Tasks |-> {}]
    /\ jobs = [j \in JobIds |-> NoJob]
    /\ articles = {}
    /\ schedules = [p \in Projects |-> InitialSchedule(projects[p])]
    /\ api_logs = {}
    /\ alerts = InitialAlerts(350)
    /\ history = [p \in Projects |-> [n |-> 0, score_sum |-> 0]]
    /\ evaluation = NoEvaluation
    /\ faults = MaxFaults
    /\ mail = {}
    /\ beat = NoBeat

NextRescore ==
    \/ \E t \in Tasks, p \in Projects : Delay(t, p)
    \/ \E t \in Tasks : StartRun(t)
    \/ \E t \in Tasks, u \in Urls : Search(t, <<u>>)
    \/ \E t \in Tasks, out \in SeqsUpTo(Outcomes, MaxResults) :
          AnalyzeGemini(t, out)
    \/ \E t \in Tasks : InsertArticle(t)
    \/ \E t \in Tasks : CommitArticles(t)
    \/ \E t \in Tasks : LogAndComplete(t)
    \/ \E t \in Tasks : LogFails(t)
    \/ \E t \in Tasks : CheckAlerts(t)

SpecRescore == InitRescore /\ [][NextRescore]_vars

\* ---- two runs of project 1 whose alert evaluations interleave -----------------
\* The ids of S in ascending order.
Ascending(S) ==
    CHOOSE s \in [1..Cardinality(S) -> S] :
        \A i, j \in 1..Cardinality(S) : i < j => s[i] < s[j]

\* The rows a detector fetched and found beyond their threshold, as read by
\* its SELECT.
Fetched(ids) ==
    [k \in 1..Cardinality(ids) |->
        [id |-> Ascending(ids)[k], row |-> alerts[Ascending(ids)[k]]]]

\* check_spike_alerts up to its loop: the 7-day count and the active spike
\* alerts of the project are read.
FetchSpikeAlerts(t) ==
    /\ run[t].pc = "alerts"
    /\ LET p == tasks[t].project_id
           after == CheckSpikeAlerts(p, run[t].new_articles, Stamp(t), alerts)
       IN  run' = [run EXCEPT ![t].pc = "spike",
                              ![t].fetched = Fetched(Triggered(alerts, after)),
                              ![t].done = 0]
    /\ UNCHANGED <<projects, env, mail, beat, tasks, tx, jobs, articles,
                   schedules, api_logs, alerts, history, evaluation, faults>>

\* check_sentiment_alerts up to its loop, once the loop of check_spike_alerts
\* has ended.
FetchSentimentAlerts(t) ==
    /\ run[t].pc = "spike"
    /\ run[t].done = Len(run[t].fetched)
    /\ LET p == tasks[t].project_id
           after == CheckSentimentAlerts(p, Stamp(t), alerts)
       IN  run' = [run EXCEPT ![t].pc = "sentiment",
                              ![t].fetched = Fetched(Triggered(alerts, after)),
                              ![t].done = 0]
    /\ UNCHANGED <<projects, env, mail, beat, tasks, tx, jobs, articles,
                   schedules, api_logs, alerts, history, evaluation, faults>>

\* Mutant of TriggerFetched: the UPDATE writes the count that was fetched,
\* plus one.
TriggerFetchedAbsolute(t) ==
    /\ run[t].pc \in {"spike", "sentiment"}
    /\ run[t].done < Len(run[t].fetched)
    /\ LET f == run[t].fetched[run[t].done + 1]
       IN  /\ mail' = mail \cup Deliveries(f.id, f.row.email_recipients,
                                           Stamp(t), {})
           /\ alerts' = [alerts EXCEPT ![f.id] = TriggerAlert(f.row, Stamp(t))]
    /\ run' = [run EXCEPT ![t].done = @ + 1]
    /\ UNCHANGED <<projects, env, beat, tasks, tx, jobs, articles, schedules,
                   api_logs, history, evaluation, faults>>

\* _trigger_alert for the next fetched alert: the messages to the recipients
\* that were fetched, then UPDATE alerts SET last_triggered = NOW(),
\* trigger_count = trigger_count + 1 on the row as it is now, and the commit.
TriggerFetched(t) ==
    /\ run[t].pc \in {"spike", "sentiment"}
    /\ run[t].done < Len(run[t].fetched)
    /\ LET f == run[t].fetched[run[t].done + 1]
       IN  /\ mail' = mail \cup Deliveries(f.id, f.row.email_recipients,
                                           Stamp(t), {})
           /\ alerts' = [alerts EXCEPT ![f.id] = TriggerAlert(@, Stamp(t))]
    /\ run' = [run EXCEPT ![t].done = @ + 1]
    /\ UNCHANGED <<projects, env, beat, tasks, tx, jobs, articles, schedules,
                   api_logs, history, evaluation, faults>>

\* check_all_alerts returned, and scrape_project returns its result.
AlertsChecked(t) ==
    /\ run[t].pc = "sentiment"
    /\ run[t].done = Len(run[t].fetched)
    /\ evaluation' = [job |-> Stamp(t), project_id |-> tasks[t].project_id,
                      new_articles |-> run[t].new_articles, raised |-> FALSE,
                      down |-> {}]
    /\ Return(t)
    /\ UNCHANGED <<projects, env, mail, beat, tx, jobs, articles, schedules,
                   api_logs, alerts, history, faults>>

\* Project 1 with a spike alert of threshold 1.5 and SMTP configured.
InitOverlap ==
    /\ projects = [p \in Projects |-> "active"]
    /\ env = [dataforseo |-> TRUE, gemini |-> FALSE, smtp |-> TRUE]
    /\ tasks = [t \in Tasks |-> NoTask]
    /\ run = [t \in Tasks |-> NoRun]
    /\ tx = [t \in Tasks |-> {}]
    /\ jobs = [j \in JobIds |-> NoJob]
    /\ articles = {}
    /\ schedules = [p \in Projects |-> InitialSchedule(projects[p])]
    /\ api_logs = {}
    /\ alerts = InitialAlerts(150)
    /\ history = [p \in Projects |-> [n |-> 0, score_sum |-> 0]]
    /\ evaluation = NoEvaluation
    /\ faults = 0
    /\ mail = {}
    /\ beat = NoBeat

NextOverlap ==
    \/ \E t \in Tasks : Delay(t, 1)
    \/ \E t \in Tasks : StartRun(t)
    \/ \E t \in Tasks, res \in ResultSeqs : Search(t, res)
    \/ \E t \in Tasks : NoArticles(t)
    \/ \E t \in Tasks : Analyze(t)
    \/ \E t \in Tasks : InsertArticle(t)
    \/ \E t \in Tasks : InsertDeadlock(t)
    \/ \E t \in Tasks : CommitArticles(t)
    \/ \E t \in Tasks : LogAndComplete(t)
    \/ \E t \in Tasks : FetchSpikeAlerts(t)
    \/ \E t \in Tasks : FetchSentimentAlerts(t)
    \/ \E t \in Tasks : TriggerFetched(t)
    \/ \E t \in Tasks : AlertsChecked(t)

SpecOverlap == InitOverlap /\ [][NextOverlap]_vars

\* ---- one task of a project whose spike alert has the threshold 7.0 -----------
InitSeven ==
    /\ Quiet
    /\ alerts = InitialAlerts(700)
    /\ \E n \in 0..MaxHistory :
           history = [p \in Projects |-> [n |-> n, score_sum |-> 0]]
    /\ faults = RetryFaults

SpecSeven == InitSeven /\ [][NextRetry]_vars

\* ---- one evaluation pass over any alerts table --------------------------------
\* create_alert stores whatever type it is given.
AlertTypes == {"spike_detection", "sentiment_shift", "other"}

\* The thresholds an alert of a type is created with, in hundredths: 1.5 or
\* 3.5 for a spike alert, 0.25 or 0.5 for a sentiment alert.
ThresholdsOf(type) == IF type = "sentiment_shift" THEN <<25, 50>> ELSE <<150, 350>>

\* Two alert rows: the first of project 1, the second of either project; each
\* of any type, with either threshold of its type, active or not.
AlertTables ==
    {[id \in AlertIds |->
        [project_id |-> IF id = 1 THEN 1 ELSE p,
         type |-> ty[id],
         threshold |-> ThresholdsOf(ty[id])[k[id]],
         email_recipients |-> IF id = 1 THEN <<1, 2>> ELSE <<2>>,
         is_active |-> ac[id], trigger_count |-> 0,
         last_triggered |-> NullTime]] :
        p \in Projects, ty \in [AlertIds -> AlertTypes],
        k \in [AlertIds -> 1..2], ac \in [AlertIds -> BOOLEAN]}

InitPass ==
    /\ projects = [p \in Projects |-> "active"]
    /\ env = [dataforseo |-> TRUE, gemini |-> TRUE, smtp |-> TRUE]
    /\ tasks = [t \in Tasks |-> NoTask]
    /\ run = [t \in Tasks |-> NoRun]
    /\ tx = [t \in Tasks |-> {}]
    /\ jobs = [j \in JobIds |-> NoJob]
    /\ articles \in RecentSets
    /\ schedules = [p \in Projects |-> InitialSchedule(projects[p])]
    /\ api_logs = {}
    /\ alerts \in AlertTables
    /\ \E h \in Histories :
           history = [p \in Projects |->
                         IF p = 1 THEN h ELSE [n |-> 0, score_sum |-> 0]]
    /\ evaluation = NoEvaluation
    /\ faults = 0
    /\ mail = {}
    /\ beat = NoBeat

\* check_all_alerts(1, new) with every recipient reachable.
NextPass == \E new \in {0, 1} : EvaluateEngine(new, {})

SpecPass == InitPass /\ [][NextPass]_vars

\* ==========================================================================
\* Properties
\* ==========================================================================
Pending == UNION {tx[t] : t \in Tasks}

StoredUrls == {r.url : r \in articles}

\* What one run alone stores of the results res: every url, or nothing when an
\* item has no url (its INSERT aborts the run's only transaction).
SingleRunStored(res) == IF NullUrl \in Range(res) THEN {} ELSE Range(res)

\* C1: an INSERT of a url that a row the statement can see already carries
\* (written by the same run, an earlier run or a run of another project)
\* stores nothing and is not counted in new_articles, and at no time do two
\* rows, committed or not, carry the same url.
C1_DedupIdempotent ==
    /\ [](\A a, b \in articles \cup Pending : a.url = b.url => a = b)
    /\ [][\A t \in Tasks :
            (/\ InLoop(t)
             /\ run'[t].i = run[t].i + 1
             /\ \E r \in articles \cup tx[t] : r.url = NextArticle(t).url)
            => /\ articles' = articles
               /\ tx'[t] = tx[t]
               /\ run'[t].new_articles = run[t].new_articles]_vars

\* C1 witness: a run of one project has executed the INSERT of a url that a
\* run of the other project had stored, and counted nothing.
C1_Witness ==
    \E t \in Tasks :
        /\ run[t].pc = "insert"
        /\ run[t].i = 2
        /\ ~run[t].aborted
        /\ run[t].new_articles = 0
        /\ tx[t] = {}
        /\ \E r \in articles :
              /\ r.url = run[t].analyzed[1].url
              /\ r.project_id # tasks[t].project_id

\* C2: whatever the interleaving, no two stored rows share a url, and once a
\* run has committed its inserts the store holds every url that run alone
\* would have stored while the rows the run added are among those urls; so
\* two concurrent runs with the same results leave the set of a single run.
\* (A run the deadlock detector aborted is the victim of a run with other
\* results and is left out.)
C2_ConcurrentRunsCollapse ==
    /\ \A a, b \in articles : a.url = b.url => a = b
    /\ \A t \in Tasks :
          (run[t].pc \in {"log", "alerts"} /\ ~run[t].victim)
          => /\ SingleRunStored(run[t].articles) \subseteq StoredUrls
             /\ {r.url : r \in {x \in articles : x.job = Stamp(t)}}
                   \subseteq SingleRunStored(run[t].articles)

\* C2 witness: two runs of one project with the same results are both past
\* their commit at the same time and the store holds exactly those urls.
C2_Witness ==
    \E t, o \in Tasks :
        /\ t # o
        /\ tasks[t].project_id = tasks[o].project_id
        /\ run[t].pc = "log" /\ run[o].pc = "log"
        /\ run[t].articles = run[o].articles
        /\ Len(run[t].articles) = 2
        /\ run[t].articles[1] # run[t].articles[2]
        /\ NullUrl \notin Range(run[t].articles)
        /\ StoredUrls = Range(run[t].articles)
        /\ Cardinality(articles) = 2

\* C3: the status of a job row changes only from running to completed or to
\* failed (a row is created running).
C3_JobStatusTransitions ==
    [][\A j \in JobIds :
          jobs'[j].status # jobs[j].status
          => \/ jobs[j].status = "none" /\ jobs'[j].status = "running"
             \/ /\ jobs[j].status = "running"
                /\ jobs'[j].status \in {"completed", "failed"}]_vars

\* C3 witness: a task whose first attempt failed and whose retry completed.
C3_Witness ==
    \E t \in Tasks :
        /\ jobs[<<t, 0>>].status = "failed"
        /\ jobs[<<t, 1>>].status = "completed"

\* C4 (as claimed): a job row is running only while the attempt that created
\* it is executing.
C4_NoRunningJobAfterReturn ==
    \A t \in Tasks, a \in Attempts :
        jobs[<<t, a>>].status = "running"
        => tasks[t].state = "running" /\ tasks[t].retries = a

C6_OneJobPerInvocation ==
    \A t \in Tasks :
        /\ Cardinality({a \in Attempts : jobs[<<t, a>>].status # "none"})
              = tasks[t].attempts
        /\ \A a \in Attempts :
              jobs[<<t, a>>].status # "none" => jobs[<<t, a>>].celery_task_id = t

\* C7 (as claimed): the step that completes a job sets the schedule of the
\* job's project to last_run = now and next_run = now + 6 hours.
C7_CompletedUpdatesSchedule ==
    [][\A j \in JobIds :
          (jobs[j].status # "completed" /\ jobs'[j].status = "completed")
          => /\ schedules'[jobs'[j].project_id].last_run = At(j, 0)
             /\ schedules'[jobs'[j].project_id].next_run = At(j, 6)]_vars

\* C8: the step a run takes after the provider answered success with no
\* article completes the job with articles_found = 0 and new_articles = 0,
\* returns (the task succeeds, no retry is scheduled) and evaluates no alert.
C8_ZeroArticlesCompletes ==
    [][\A t \in Tasks :
          (/\ run[t].pc = "searched"
           /\ run[t].articles = <<>>
           /\ run'[t] # run[t])
          => /\ jobs'[Stamp(t)].status = "completed"
             /\ jobs'[Stamp(t)].articles_found = 0
             /\ jobs'[Stamp(t)].new_articles = 0
             /\ tasks'[t].state = "succeeded"
             /\ tasks'[t].retries = tasks[t].retries
             /\ alerts' = alerts
             /\ evaluation' = evaluation]_vars

\* C8 witness: a task succeeded on a job completed with no article found.
C8_Witness ==
    \E t \in Tasks :
        /\ tasks[t].state = "succeeded"
        /\ jobs[<<t, tasks[t].retries>>].status = "completed"
        /\ jobs[<<t, tasks[t].retries>>].articles_found = 0
        /\ jobs[<<t, tasks[t].retries>>].new_articles = 0

\* C9: when check_all_alerts has raised in a run, the run's job is and stays
\* completed, the task has succeeded and no retry was scheduled for it.
C9_AlertFailureNotFatal ==
    evaluation.raised
    => /\ jobs[evaluation.job].status = "completed"
       /\ tasks[evaluation.job[1]].state = "succeeded"
       /\ tasks[evaluation.job[1]].retries = evaluation.job[2]

\* C9 witness: check_all_alerts raised in a run that had stored new articles.
C9_Witness ==
    /\ evaluation.raised
    /\ evaluation.new_articles > 0
    /\ jobs[evaluation.job].new_articles = evaluation.new_articles
    /\ \A id \in AlertIds : alerts[id].trigger_count = 0

NewMail == mail' \ mail

\* The step is a call of check_all_alerts in the numbered calls of SpecEngine.
EngineCall == evaluation'.job # evaluation.job

\* C11 (as claimed): with at least one scored article in the last 24 hours, a
\* call triggers an active sentiment_shift alert with threshold T exactly when
\* abs(recent - historical) > T, historical being 0 for an empty window,
\* whatever the recent average is.
C11_SentimentIff ==
    [][EngineCall =>
        \A id \in AlertIds :
           (/\ alerts[id].project_id = evaluation'.project_id
            /\ alerts[id].type = "sentiment_shift"
            /\ alerts[id].is_active
            /\ RecentRows(alerts[id].project_id) # {})
           => LET rows == RecentRows(alerts[id].project_id)
                  rs == SumScores(rows)
                  rn == Cardinality(rows)
                  hs == history[alerts[id].project_id].score_sum
                  hn == history[alerts[id].project_id].n
                  T == alerts[id].threshold
                  exceeds == IF hn = 0 THEN Abs(rs) > T * rn
                             ELSE Abs(rs * hn - hs * rn) > T * rn * hn
              IN  /\ exceeds => alerts'[id].trigger_count
                                   = alerts[id].trigger_count + 1
                  /\ ~exceeds => alerts'[id] = alerts[id]]_vars

\* C12: a call made while the project has no article scraped in the last 24
\* hours changes no sentiment_shift alert row, hands no message of such an
\* alert to _send_email and does not raise.
C12_NoRecentNoOp ==
    [][(EngineCall /\ RecentRows(evaluation'.project_id) = {}) =>
        /\ ~evaluation'.raised
        /\ \A id \in AlertIds :
              alerts[id].type = "sentiment_shift"
              => /\ alerts'[id] = alerts[id]
                 /\ \A m \in NewMail : m.alert # id]_vars

\* C12 witness: a call was made with SMTP configured, no recent article, an
\* active sentiment alert and a historical average beyond its threshold.
C12_Witness ==
    /\ evaluation.job[2] > 0
    /\ env.smtp
    /\ RecentRows(1) = {}
    /\ alerts[2].is_active
    /\ history[1].n > 0
    /\ Abs(history[1].score_sum) > alerts[2].threshold * history[1].n
    /\ alerts[2].trigger_count = 0
    /\ \A m \in mail : m.alert # 2

\* C13: when a message of a call could not be delivered, the same call has
\* handed a message to every recipient of that alert, delivered to each one
\* that could be reached, has incremented the alert's trigger_count and set
\* its last_triggered, and has not raised.
C13_RecipientIsolation ==
    [][EngineCall =>
        \A m \in NewMail :
           ~m.sent
           => LET a == alerts[m.alert]
              IN  /\ \A k \in 1..Len(a.email_recipients) :
                        \E x \in NewMail :
                           /\ x.alert = m.alert
                           /\ x.to = a.email_recipients[k]
                           /\ x.sent = (x.to \notin evaluation'.down)
                  /\ alerts'[m.alert].trigger_count = a.trigger_count + 1
                  /\ alerts'[m.alert].last_triggered = At(evaluation'.job, 0)
                  /\ ~evaluation'.raised]_vars

\* C13 witness: in one call the first recipient of an alert could not be
\* reached, the second got the message, and the alert counted the trigger.
C13_Witness ==
    \E m, x \in mail :
        /\ m.alert = x.alert /\ m.at = x.at
        /\ ~m.sent /\ x.sent
        /\ m.to = alerts[m.alert].email_recipients[1]
        /\ x.to = alerts[m.alert].email_recipients[2]
        /\ alerts[m.alert].trigger_count = 1
        /\ alerts[m.alert].last_triggered = At(m.at, 0)

\* C20: without SMTP credentials a call hands no message to the server and
\* does not raise, and every alert it triggers is updated in full: an active
\* spike alert whose condition holds has its trigger_count incremented and
\* its last_triggered set.
C20_NoSmtpStillTriggers ==
    [][(EngineCall /\ ~env.smtp) =>
        /\ mail' = mail
        /\ ~evaluation'.raised
        /\ \A id \in AlertIds :
              (/\ alerts[id].project_id = evaluation'.project_id
               /\ alerts[id].type = "spike_detection"
               /\ alerts[id].is_active
               /\ evaluation'.new_articles
                     > (Count7(alerts[id].project_id) * alerts[id].threshold)
                          \div 700)
              => /\ alerts'[id].trigger_count = alerts[id].trigger_count + 1
                 /\ alerts'[id].last_triggered = At(evaluation'.job, 0)]_vars

\* C20 witness: an alert was triggered twice without SMTP credentials and no
\* message exists.
C20_Witness ==
    /\ ~env.smtp
    /\ evaluation.job[2] = 2
    /\ alerts[1].trigger_count = 2
    /\ alerts[1].last_triggered = At(evaluation.job, 0)
    /\ mail = {}

\* C14: no step (of a job run, of an alert evaluation inside it, of a retry
\* or of toggle_alert) decreases the trigger_count of an alert.
C14_TriggerCountMonotonic ==
    [][\A id \in AlertIds :
          alerts'[id].trigger_count >= alerts[id].trigger_count]_vars

\* C14 witness: an alert a run has triggered is switched off afterwards, while
\* another task is waiting for its retry.
C14_Witness ==
    /\ alerts[1].trigger_count = 1
    /\ alerts[1].last_triggered # NullTime
    /\ ~alerts[1].is_active
    /\ \E t \in Tasks : tasks[t].state = "retry"

\* C15: one execution of scrape_all_active_projects queues exactly one new
\* task for each project that is active, none for any other project, touches
\* no other task, and returns the number of tasks it queued.
C15_FanOutActiveOnly ==
    [][beat' # beat =>
        LET queued == {t \in Tasks : tasks'[t] # tasks[t]}
        IN  /\ \A t \in queued :
                  /\ tasks[t].state = "idle"
                  /\ tasks'[t].state = "queued"
                  /\ tasks'[t].retries = 0
            /\ \A p \in Projects :
                  Cardinality({t \in queued : tasks'[t].project_id = p})
                     = IF projects[p] = "active" THEN 1 ELSE 0
            /\ beat'.projects_scheduled = Cardinality(queued)]_vars

\* C15 witness: with one project active and the other paused, an execution
\* returned 1 and its one task, of the active project, has completed a job.
C15_Witness ==
    /\ beat.ran
    /\ beat.projects_scheduled = 1
    /\ \E p \in Projects : projects[p] = "paused"
    /\ \A t \in beat.queued :
          /\ projects[tasks[t].project_id] = "active"
          /\ tasks[t].state = "succeeded"
    /\ \A t \in Tasks \ beat.queued : tasks[t].state = "idle"

C17_AnalysisFailureTolerated ==
    [][\A t \in Tasks :
          (/\ run[t].pc = "searched"
           /\ run[t].articles # <<>>
           /\ env.gemini
           /\ run'[t] # run[t])
          => /\ run'[t].pc = "insert"
             /\ run'[t].i = 1
             /\ jobs'[Stamp(t)].status = "running"
             /\ tasks'[t].state = "running"
             /\ Len(run'[t].analyzed) = Len(run[t].articles)
             /\ \A k \in 1..Len(run[t].articles) :
                   /\ run'[t].analyzed[k].url = run[t].articles[k]
                   /\ k \in run'[t].failed
                         => run'[t].analyzed[k]
                               = [url |-> run[t].articles[k],
                                  sentiment |-> "neutral",
                                  sentiment_score |-> 0,
                                  relevance_score |-> 50]]_vars

\* C18 (as claimed): once a run has committed its inserts, every item of its
\* answer except those whose INSERT raised is stored: an item with a url is in
\* the store, whether or not another item of the batch had none.
C18_SkipOnlyFailingArticle ==
    \A t \in Tasks :
        run[t].pc \in {"log", "alerts"}
        => Range(run[t].articles) \ {NullUrl} \subseteq StoredUrls

C21_EachAlertOnItsThreshold ==
    [][EngineCall =>
        \A id \in AlertIds :
           (/\ alerts[id].project_id = evaluation'.project_id
            /\ alerts[id].is_active
            /\ alerts[id].type \in {"spike_detection", "sentiment_shift"})
           => LET p == alerts[id].project_id
                  T == alerts[id].threshold
                  rs == SumScores(RecentRows(p))
                  rn == Cardinality(RecentRows(p))
                  hs == history[p].score_sum
                  hn == history[p].n
                  holds ==
                      IF alerts[id].type = "spike_detection"
                      THEN evaluation'.new_articles * 700 > Count7(p) * T
                      ELSE /\ rn > 0
                           /\ IF hn = 0 THEN Abs(rs) > T * rn
                              ELSE Abs(rs * hn - hs * rn) > T * rn * hn
              IN  /\ holds => /\ alerts'[id].trigger_count
                                    = alerts[id].trigger_count + 1
                              /\ alerts'[id].last_triggered
                                    = At(evaluation'.job, 0)
                  /\ ~holds => alerts'[id] = alerts[id]]_vars

\* C24: a call of check_all_alerts for a project changes nothing but
\* last_triggered and trigger_count, and only of alerts that belong to the
\* project, are active and are of a detector's type; an alert that is
\* inactive, of another project or of another type keeps its row and no
\* message is sent for it.
C24_EvaluationFrame ==
    [][EngineCall =>
        \A id \in AlertIds :
           /\ [alerts'[id] EXCEPT !.trigger_count = alerts[id].trigger_count,
                                  !.last_triggered = alerts[id].last_triggered]
                 = alerts[id]
           /\ (\/ alerts[id].project_id # evaluation'.project_id
               \/ ~alerts[id].is_active
               \/ alerts[id].type \notin {"spike_detection", "sentiment_shift"})
              => /\ alerts'[id] = alerts[id]
                 /\ \A m \in NewMail : m.alert # id]_vars

\* C24 witness: one call triggered the spike alert 1 and sent its messages,
\* while alert 2, a spike alert of the same project and threshold, is
\* inactive and untouched.
C24_Witness ==
    /\ evaluation.job[2] = 1
    /\ alerts[1].type = "spike_detection"
    /\ alerts[1].trigger_count = 1
    /\ \E m \in mail : m.alert = 1
    /\ alerts[2].type = "spike_detection"
    /\ alerts[2].project_id = 1
    /\ alerts[2].threshold = alerts[1].threshold
    /\ ~alerts[2].is_active
    /\ alerts[2].trigger_count = 0
    /\ \A m \in mail : m.alert # 2

\* C22: a run calls check_all_alerts exactly when its new_articles is above
\* 0, with that number and its own project, and only once its job row is
\* completed and the schedule row updated and committed; a run with no new
\* article returns without the call, and no call belongs to a job that is
\* running or failed.
C22_AlertsOnlyAfterCompletion ==
    /\ [](evaluation.job # <<0, 0>>
             => jobs[evaluation.job].status = "completed")
    /\ [][\A t \in Tasks :
            /\ (run[t].pc = "log" /\ run'[t].pc = "alerts")
               => run[t].new_articles > 0
            /\ (run[t].pc = "log" /\ tasks'[t].state = "succeeded")
               => /\ run[t].new_articles = 0
                  /\ evaluation' = evaluation
            /\ (run[t].pc = "alerts" /\ run'[t].pc # "alerts")
               => /\ evaluation'.job = Stamp(t)
                  /\ evaluation' # evaluation
            /\ (evaluation' # evaluation /\ evaluation'.job = Stamp(t))
               => /\ run[t].pc = "alerts"
                  /\ run[t].new_articles > 0
                  /\ evaluation'.new_articles = run[t].new_articles
                  /\ evaluation'.project_id = tasks[t].project_id
                  /\ jobs[Stamp(t)].status = "completed"
                  /\ jobs[Stamp(t)].new_articles = run[t].new_articles
                  /\ jobs' = jobs
                  /\ schedules' = schedules
                  /\ schedules[tasks[t].project_id].last_run # NullTime]_vars

\* C22 witness: a task returned after a call of check_all_alerts with the
\* number of new articles recorded on its completed job.
C22_Witness ==
    /\ evaluation.job # <<0, 0>>
    /\ ~evaluation.raised
    /\ evaluation.new_articles > 0
    /\ jobs[evaluation.job].status = "completed"
    /\ jobs[evaluation.job].new_articles = evaluation.new_articles
    /\ tasks[evaluation.job[1]].state = "succeeded"
    /\ schedules[evaluation.project_id].last_run = At(evaluation.job, 0)

\* C23: nothing guards against overlap.  While a job of a project is running,
\* a manual request still enqueues a task for the project and the periodic
\* fan-out still runs (and enqueues every active project, C15), whenever a
\* task id is left; the new task executes next to the running one.
C23_NoOverlapGuard ==
    \A p \in Projects :
       (\E j \in JobIds : jobs[j].project_id = p /\ jobs[j].status = "running")
       => /\ \A t \in IdleTasks :
                (\A o \in Tasks : o < t => tasks[o].state # "idle")
                => ENABLED Delay(t, p)
          /\ (/\ p \in ActiveProjects
              /\ Cardinality(IdleTasks) >= Cardinality(ActiveProjects))
             => ENABLED ScrapeAllActiveProjects

\* C23 witness: two tasks of one project execute at the same time, the second
\* enqueued by the fan-out while the job of the first was running, and the
\* scraping_jobs table holds two running rows of the project.
C23_Witness ==
    /\ beat.ran
    /\ beat.queued = {2}
    /\ tasks[1].state = "running" /\ tasks[2].state = "running"
    /\ tasks[1].project_id = tasks[2].project_id
    /\ jobs[<<1, 0>>].status = "running"
    /\ jobs[<<2, 0>>].status = "running"
    /\ jobs[<<1, 0>>].project_id = jobs[<<2, 0>>].project_id
    /\ run[1].pc = "insert" /\ run[2].pc = "insert"

\* C25: a stored article row is never changed or removed by a later run: the
\* row that carries a url after a step is the row that carried it before,
\* whatever project, annotation or time a later result with that url has.
C25_StoredRowsImmutable ==
    [][\A r \in articles :
          /\ r \in articles'
          /\ \A n \in articles' : n.url = r.url => n = r]_vars

\* C25 witness: a run of another task and another project has passed the
\* INSERT of a result whose url is stored already, with another score, and
\* counted nothing.
C25_Witness ==
    \E t \in Tasks, r \in articles :
       /\ run[t].pc = "insert"
       /\ run[t].i = 2
       /\ run[t].analyzed[1].url = r.url
       /\ run[t].analyzed[1].sentiment_score # r.sentiment_score
       /\ tasks[t].project_id # r.project_id
       /\ r.job[1] # t
       /\ run[t].new_articles = 0
       /\ tx[t] = {}

\* C26: when the search provider reports failure, the attempt marks its own
\* job failed with the provider's error as message and a completion time, and
\* changes no other job row, no article row, no schedule row and no alert row.
C26_ProviderFailureFrame ==
    [][\A t \in Tasks :
          (/\ run[t].pc = "fetch"
           /\ projects[tasks[t].project_id] = "active"
           /\ env.dataforseo
           /\ run'[t].pc = "idle")
          => /\ jobs'[Stamp(t)].status = "failed"
             /\ jobs'[Stamp(t)].error_message = "DataForSEO error"
             /\ jobs'[Stamp(t)].completed_at = At(Stamp(t), 0)
             /\ \A j \in JobIds \ {Stamp(t)} : jobs'[j] = jobs[j]
             /\ articles' = articles
             /\ schedules' = schedules
             /\ alerts' = alerts]_vars

\* C26 witness: an attempt failed on the provider's error after another run
\* had stored an article and updated the schedule of the same project.
C26_Witness ==
    \E j \in JobIds :
       /\ jobs[j].status = "failed"
       /\ jobs[j].error_message = "DataForSEO error"
       /\ jobs[j].completed_at = At(j, 0)
       /\ tasks[j[1]].state = "retry"
       /\ \E r \in articles : r.project_id = jobs[j].project_id
       /\ schedules[jobs[j].project_id].last_run # NullTime

\* C27 (as claimed): the new_articles recorded on a completed job is the number
\* of article rows its run added to the store, and is at most the recorded
\* articles_found.
C27_NewArticlesCountsOwnRows ==
    \A j \in JobIds :
       jobs[j].status = "completed"
       => /\ jobs[j].new_articles = Cardinality({r \in articles : r.job = j})
          /\ jobs[j].new_articles <= jobs[j].articles_found

\* C28: no increment of trigger_count is lost, however the evaluations of
\* concurrent runs interleave: the count of every alert is the number of
\* times it was triggered (each trigger sends its messages, stamped with the
\* run that triggered), and every trigger raises the count of its alert by
\* exactly 1 over what the row held at that moment.
C28_NoLostIncrement ==
    /\ [](\A id \in AlertIds :
             alerts[id].trigger_count
                = Cardinality({m.at : m \in {x \in mail : x.alert = id}}))
    /\ [][\A id \in AlertIds :
             alerts'[id] # alerts[id]
             => alerts'[id].trigger_count = alerts[id].trigger_count + 1]_vars

\* C28 witness: both runs fetched alert 1 with trigger_count 0, both triggered
\* it, and its count is 2.
C28_Witness ==
    /\ \A t \in Tasks :
          /\ run[t].pc = "spike"
          /\ Len(run[t].fetched) = 1
          /\ run[t].fetched[1].id = 1
          /\ run[t].fetched[1].row.trigger_count = 0
          /\ run[t].done = 1
    /\ alerts[1].trigger_count = 2

\* C29 (as claimed): when a run's check_all_alerts is called the 7-day count
\* of the project holds the rows the run has stored, so new_articles is at
\* most that count, and a spike alert whose threshold is 7 or more is never
\* triggered by a run.
C29_SevenfoldNeverTriggers ==
    /\ evaluation.job # <<0, 0>>
       => evaluation.new_articles <= Count7(evaluation.project_id)
    /\ \A id \in AlertIds :
          (alerts[id].type = "spike_detection" /\ alerts[id].threshold >= 700)
          => alerts[id].trigger_count = 0

\* C30 (as claimed): when the attempts of a task have added an article row and
\* the task's last attempt ended completed, check_all_alerts was called by an
\* attempt of the task.
C30_RetriedArticlesEvaluated ==
    \A t \in Tasks :
       (/\ tasks[t].state = "succeeded"
        /\ jobs[Stamp(t)].status = "completed"
        /\ \E r \in articles : r.job[1] = t)
       => evaluation.job[1] = t

====
